---- MODULE Spec2Model ----
(***************************************************************************)
(* A model of pretty_env_logger (src/src/lib.rs): the process-wide        *)
(* running maximum MAX_MODULE_WIDTH and max_target_width, the two format  *)
(* closures (formatted_builder, formatted_timed_builder), the process-    *)
(* wide TIMESTAMP_TYPE and set_timestamp_type, and the try_init* entry    *)
(* points.                                                                 *)
(*                                                                         *)
(* Strings are TLA+ strings; Len and \o are the character length and the  *)
(* concatenation.  All target names of the model are ASCII, so that the   *)
(* byte length target.len() and the character count used by the padding   *)
(* agree.                                                                  *)
(***************************************************************************)
EXTENDS Integers, Sequences, FiniteSets, TLC

\* ---- bounds -------------------------------------------------------------
NumThreads == 2      \* threads that call a format closure
MaxCalls == 3        \* format-closure calls started in one behaviour
MaxFormatters == 2   \* builders kept in one behaviour
MaxInits == 2        \* try_init* calls in one behaviour

\* ---- input domains ------------------------------------------------------
Threads == 1..NumThreads
Targets == {"a", "bbbbb", "cc", "net::server"}
ShortTargets == {"a", "bbbbb", "cc"}
Levels == {"Trace", "Debug", "Info", "Warn", "Error"}
Messages == {"listening"}
TimestampType == {"SystemTimeMillis", "LocalRfc3339", "UtcRfc3339"}
EnvNames == {"RUST_LOG", "APP_LOG"}

VARIABLES
  MAX_MODULE_WIDTH,  \* static MAX_MODULE_WIDTH: AtomicUsize
  TIMESTAMP_TYPE,    \* static mut TIMESTAMP_TYPE
  formatters,        \* the builders that exist, in construction order
  logger,            \* the global logger: 0 (none) or an index of formatters
  initResults,       \* what each try_init* call returned, in call order
  pc,                \* per thread: position inside the format closure
  target,            \* per thread: record.target() of the record in hand
  fmt,               \* per thread: the formatter whose closure is running
  max_width,         \* per thread: the local max_width of max_target_width
  width,             \* per thread: what max_target_width returned
  result,            \* per thread: what the closure's writeln! wrote/returned
  seen,              \* history, per thread: at the start of its call, the
                     \*   longest target of the calls that had returned and
                     \*   the number of try_init* calls made
  doneMax,           \* history: longest target of the calls that returned
  started,           \* history: target lengths, in the order calls started
  builtWith          \* history: TIMESTAMP_TYPE when formatters[i] was built

vars == <<MAX_MODULE_WIDTH, TIMESTAMP_TYPE, formatters, logger, initResults,
          pc, target, fmt, max_width, width, result, seen, doneMax, started,
          builtWith>>

threadVars == <<pc, target, fmt, max_width, width, result, seen>>
widthHistory == <<doneMax, started>>
globalCfg == <<TIMESTAMP_TYPE, formatters, logger, initResults, builtWith>>

Max(a, b) == IF a < b THEN b ELSE a

RECURSIVE SeqMax(_)
SeqMax(s) == IF s = <<>> THEN 0 ELSE Max(Head(s), SeqMax(Tail(s)))

NoResult ==
  [ok |-> FALSE, mode |-> "none", level |-> "none", label |-> "",
   msg |-> "", line |-> ""]

NoSeen == [width |-> 0, inits |-> 0]

Idle ==
  /\ pc = [t \in Threads |-> "idle"]
  /\ target = [t \in Threads |-> ""]
  /\ fmt = [t \in Threads |-> 0]
  /\ max_width = [t \in Threads |-> 0]
  /\ width = [t \in Threads |-> 0]
  /\ result = [t \in Threads |-> NoResult]
  /\ seen = [t \in Threads |-> NoSeen]
  /\ doneMax = 0
  /\ started = <<>>

\* the process at its start: the statics hold their initialisers, no builder
\* exists and no logger is installed
Init ==
  /\ MAX_MODULE_WIDTH = 0
  /\ TIMESTAMP_TYPE = "SystemTimeMillis"
  /\ formatters = <<>>
  /\ logger = 0
  /\ initResults = <<>>
  /\ builtWith = <<>>
  /\ Idle

\* the process after formatted_builder() and formatted_timed_builder() were
\* each called once from Init, before any record is formatted
InitBuilt ==
  /\ MAX_MODULE_WIDTH = 0
  /\ TIMESTAMP_TYPE = "SystemTimeMillis"
  /\ formatters =
       << [timed |-> FALSE, timestamp_format |-> "none",
           filter |-> "", owner |-> "caller"],
          [timed |-> TRUE, timestamp_format |-> "SystemTimeMillis",
           filter |-> "", owner |-> "caller"] >>
  /\ logger = 0
  /\ initResults = <<>>
  /\ builtWith = <<"SystemTimeMillis", "SystemTimeMillis">>
  /\ Idle

\* ---- pure functions -----------------------------------------------------

\* mutant of colored_level: the labels of Info and Warn lose their padding
colored_level_unpadded(level) ==
  CASE level = "Trace" -> "TRACE"
    [] level = "Debug" -> "DEBUG"
    [] level = "Info"  -> "INFO"
    [] level = "Warn"  -> "WARN"
    [] level = "Error" -> "ERROR"

\* colored_level: the text of the styled label (the colour does not change
\* the characters written)
colored_level(level) ==
  CASE level = "Trace" -> "TRACE"
    [] level = "Debug" -> "DEBUG"
    [] level = "Info"  -> "INFO "
    [] level = "Warn"  -> "WARN "
    [] level = "Error" -> "ERROR"

RECURSIVE Spaces(_)
Spaces(n) == IF n <= 0 THEN "" ELSE " " \o Spaces(n - 1)

\* mutant of Padded: the value is written without any fill
Padded_nofill(value, w) == value

\* impl Display for Padded: "{: <width$}" left-aligns the value and fills
\* with spaces up to width; a value longer than width is written whole
Padded(value, w) ==
  IF Len(value) >= w THEN value ELSE value \o Spaces(w - Len(value))

\* the time token of the timed closure; the clock is outside the model, one
\* token stands for each way of rendering it
TimeText(mode) ==
  CASE mode = "SystemTimeMillis" -> "<timestamp_millis>"
    [] mode = "LocalRfc3339"     -> "<local_rfc3339>"
    [] mode = "UtcRfc3339"       -> "<utc_rfc3339>"

\* writeln!(f, " {} {} > {}", level, target, record.args())
UntimedLine(level, tgt, w, msg) ==
  " " \o colored_level(level) \o " " \o Padded(tgt, w) \o " > " \o msg \o "\n"

\* writeln!(f, " {} {} {} > {}", time, level, target, record.args())
TimedLine(mode, level, tgt, w, msg) ==
  " " \o TimeText(mode) \o " " \o colored_level(level) \o " "
      \o Padded(tgt, w) \o " > " \o msg \o "\n"

\* ::std::env::var(name): the environment of the process
Environment(name) == IF name = "RUST_LOG" THEN "info" ELSE "unset"

\* mutant of StoredWidth: the store is made without the comparison
StoredWidth_nocompare(mw, len, cur) == len

\* max_target_width, the value MAX_MODULE_WIDTH holds after the if/else
\* (cur is the value it holds when the branch is taken)
StoredWidth(mw, len, cur) == IF mw < len THEN len ELSE cur

\* mutant of ReturnedWidth: the loaded value is returned in both branches
ReturnedWidth_stale(mw, len) == mw

\* max_target_width, the value returned
ReturnedWidth(mw, len) == IF mw < len THEN len ELSE mw

\* mutant of timestamp_format: the closure re-reads the global per record
timestamp_format_reread(f) == TIMESTAMP_TYPE

\* the timestamp_format the closure of formatters[f] captured (move)
timestamp_format(f) == formatters[f].timestamp_format

\* log::set_boxed_logger as reached from Builder::try_init: the first logger
\* is installed, a later one is refused
SetLogger(cur, new) ==
  IF cur = 0 THEN [logger |-> new, result |-> "Ok"]
             ELSE [logger |-> cur, result |-> "Err"]

\* ---- construction and installation --------------------------------------

\* Builder::new() and builder.format(closure): the timed closure captures a
\* clone of TIMESTAMP_TYPE (let timestamp_format = unsafe { ... .clone() })
Construct(timed, filter, owner) ==
  /\ formatters' = Append(formatters,
        [timed |-> timed,
         timestamp_format |-> IF timed THEN TIMESTAMP_TYPE ELSE "none",
         filter |-> filter, owner |-> owner])
  /\ builtWith' = Append(builtWith, TIMESTAMP_TYPE)

\* if let Ok(s) = ::std::env::var(name) { builder.parse_filters(&s); }
FilterOf(name) == IF Environment(name) # "unset" THEN Environment(name) ELSE ""

set_timestamp_type(timestamp_type) ==
  /\ TIMESTAMP_TYPE' = timestamp_type
  /\ UNCHANGED <<MAX_MODULE_WIDTH, formatters, logger, initResults, builtWith,
                 threadVars, widthHistory>>

formatted_builder ==
  /\ Len(formatters) < MaxFormatters
  /\ Construct(FALSE, "", "caller")
  /\ UNCHANGED <<MAX_MODULE_WIDTH, TIMESTAMP_TYPE, logger, initResults,
                 threadVars, widthHistory>>

formatted_timed_builder ==
  /\ Len(formatters) < MaxFormatters
  /\ Construct(TRUE, "", "caller")
  /\ UNCHANGED <<MAX_MODULE_WIDTH, TIMESTAMP_TYPE, logger, initResults,
                 threadVars, widthHistory>>

\* the body shared by try_init_custom_env and try_init_timed_custom_env: a
\* builder is made, the filter is parsed, builder.try_init() is returned; a
\* builder that was refused is dropped with the call
Install(timed, name) ==
  LET new == Len(formatters) + 1
      r == SetLogger(logger, new)
  IN /\ Len(initResults) < MaxInits
     /\ r.result = "Ok" => Len(formatters) < MaxFormatters
     /\ IF r.result = "Ok"
          THEN Construct(timed, FilterOf(name), "logger")
          ELSE UNCHANGED <<formatters, builtWith>>
     /\ logger' = r.logger
     /\ initResults' = Append(initResults,
           [result |-> r.result, fmt |-> IF r.result = "Ok" THEN new ELSE 0])
     /\ UNCHANGED <<MAX_MODULE_WIDTH, TIMESTAMP_TYPE, threadVars, widthHistory>>

\* mutant of try_init_custom_env: the new logger replaces the installed one
try_init_custom_env_replace(environment_variable_name) ==
  LET new == Len(formatters) + 1
  IN /\ Len(initResults) < MaxInits
     /\ Len(formatters) < MaxFormatters
     /\ Construct(FALSE, FilterOf(environment_variable_name), "logger")
     /\ logger' = new
     /\ initResults' = Append(initResults, [result |-> "Ok", fmt |-> new])
     /\ UNCHANGED <<MAX_MODULE_WIDTH, TIMESTAMP_TYPE, threadVars, widthHistory>>

try_init_custom_env(environment_variable_name) ==
  Install(FALSE, environment_variable_name)

try_init_timed_custom_env(environment_variable_name) ==
  Install(TRUE, environment_variable_name)

try_init == try_init_custom_env("RUST_LOG")

try_init_timed == try_init_timed_custom_env("RUST_LOG")

\* ---- the format closures ------------------------------------------------

Usable == 1..Len(formatters)

\* a thread enters the closure of formatter f with a record of target tgt
Start(t, f, tgt) ==
  /\ pc[t] = "idle"
  /\ Len(started) < MaxCalls
  /\ f \in Usable
  /\ pc' = [pc EXCEPT ![t] = "load"]
  /\ target' = [target EXCEPT ![t] = tgt]
  /\ fmt' = [fmt EXCEPT ![t] = f]
  /\ seen' = [seen EXCEPT ![t] =
                 [width |-> doneMax, inits |-> Len(initResults)]]
  /\ started' = Append(started, Len(tgt))
  /\ UNCHANGED <<MAX_MODULE_WIDTH, globalCfg, max_width, width, result,
                 doneMax>>

\* let max_width = MAX_MODULE_WIDTH.load(Ordering::Relaxed);
Load(t) ==
  /\ pc[t] = "load"
  /\ max_width' = [max_width EXCEPT ![t] = MAX_MODULE_WIDTH]
  /\ pc' = [pc EXCEPT ![t] = "branch"]
  /\ UNCHANGED <<MAX_MODULE_WIDTH, globalCfg, target, fmt, width, result,
                 seen, widthHistory>>

\* if max_width < target.len() { store; target.len() } else { max_width }
Branch(t) ==
  /\ pc[t] = "branch"
  /\ MAX_MODULE_WIDTH' =
        StoredWidth(max_width[t], Len(target[t]), MAX_MODULE_WIDTH)
  /\ width' = [width EXCEPT ![t] = ReturnedWidth(max_width[t], Len(target[t]))]
  /\ pc' = [pc EXCEPT ![t] = "write"]
  /\ doneMax' = Max(doneMax, Len(target[t]))
  /\ UNCHANGED <<globalCfg, target, fmt, max_width, result, seen, started>>

Written(ok, mode, level, msg, line) ==
  [ok |-> ok, mode |-> mode, level |-> level, label |-> colored_level(level),
   msg |-> msg, line |-> IF ok THEN line ELSE ""]

\* mutant of WriteUntimed: a failed write puts the loaded width back
WriteUntimed_rollback(t, level, msg, ok) ==
  /\ pc[t] = "write"
  /\ ~formatters[fmt[t]].timed
  /\ result' = [result EXCEPT ![t] =
        Written(ok, "none", level, msg,
                UntimedLine(level, target[t], width[t], msg))]
  /\ MAX_MODULE_WIDTH' = IF ok THEN MAX_MODULE_WIDTH ELSE max_width[t]
  /\ pc' = [pc EXCEPT ![t] = "done"]
  /\ UNCHANGED <<globalCfg, target, fmt, max_width, width, seen, widthHistory>>

\* formatted_builder's closure, from colored_level to the writeln!, which
\* succeeds (ok) or returns the destination's error
WriteUntimed(t, level, msg, ok) ==
  /\ pc[t] = "write"
  /\ ~formatters[fmt[t]].timed
  /\ result' = [result EXCEPT ![t] =
        Written(ok, "none", level, msg,
                UntimedLine(level, target[t], width[t], msg))]
  /\ pc' = [pc EXCEPT ![t] = "done"]
  /\ UNCHANGED <<MAX_MODULE_WIDTH, globalCfg, target, fmt, max_width, width,
                 seen, widthHistory>>

\* formatted_timed_builder's closure, from colored_level to the writeln! of
\* the arm that match timestamp_format selects
WriteTimed(t, level, msg, ok) ==
  /\ pc[t] = "write"
  /\ formatters[fmt[t]].timed
  /\ LET mode == timestamp_format(fmt[t])
     IN result' = [result EXCEPT ![t] =
           Written(ok, mode, level, msg,
                   TimedLine(mode, level, target[t], width[t], msg))]
  /\ pc' = [pc EXCEPT ![t] = "done"]
  /\ UNCHANGED <<MAX_MODULE_WIDTH, globalCfg, target, fmt, max_width, width,
                 seen, widthHistory>>

\* the closure returns its io::Result to the caller; its locals are gone
Return(t) ==
  /\ pc[t] = "done"
  /\ pc' = [pc EXCEPT ![t] = "idle"]
  /\ target' = [target EXCEPT ![t] = ""]
  /\ fmt' = [fmt EXCEPT ![t] = 0]
  /\ max_width' = [max_width EXCEPT ![t] = 0]
  /\ width' = [width EXCEPT ![t] = 0]
  /\ result' = [result EXCEPT ![t] = NoResult]
  /\ seen' = [seen EXCEPT ![t] = NoSeen]
  /\ UNCHANGED <<MAX_MODULE_WIDTH, globalCfg, widthHistory>>

\* records formatted one after another: a closure is entered only when no
\* thread is inside one
StartAlone(t, f, tgt) ==
  /\ \A u \in Threads : pc[u] = "idle"
  /\ Start(t, f, tgt)

\* ---- specifications -----------------------------------------------------

\* Concurrent formatting: the threads are inside the closure of the builder
\* formatted_builder() returned, in every interleaving of their steps.  The
\* level is fixed and the targets are those of three lengths: the width
\* depends on neither the level nor the closure that asks for it.
Next ==
  \/ \E t \in Threads, tgt \in ShortTargets : Start(t, 1, tgt)
  \/ \E t \in Threads : Load(t)
  \/ \E t \in Threads : Branch(t)
  \/ \E t \in Threads, msg \in Messages, ok \in BOOLEAN :
        WriteUntimed(t, "Info", msg, ok)
  \/ \E t \in Threads : Return(t)

Spec == InitBuilt /\ [][Next]_vars

\* Records formatted one after another, with every level.
NextSeq ==
  \/ \E t \in Threads, f \in Usable, tgt \in Targets : StartAlone(t, f, tgt)
  \/ \E t \in Threads : Load(t)
  \/ \E t \in Threads : Branch(t)
  \/ \E t \in Threads, level \in Levels, msg \in Messages, ok \in BOOLEAN :
        WriteUntimed(t, level, msg, ok)
  \/ \E t \in Threads, level \in Levels, msg \in Messages, ok \in BOOLEAN :
        WriteTimed(t, level, msg, ok)
  \/ \E t \in Threads : Return(t)

SpecSeq == InitBuilt /\ [][NextSeq]_vars

\* Configuration and installation from the start of the process, with the
\* records formatted one after another by one thread.
NextCfg ==
  \/ \E m \in TimestampType : set_timestamp_type(m)
  \/ formatted_builder
  \/ formatted_timed_builder
  \/ try_init
  \/ try_init_timed
  \/ \E name \in EnvNames : try_init_custom_env(name)
  \/ \E name \in EnvNames : try_init_timed_custom_env(name)
  \/ \E f \in Usable : StartAlone(1, f, "a")
  \/ Load(1)
  \/ Branch(1)
  \/ \E ok \in BOOLEAN : WriteUntimed(1, "Info", "listening", ok)
  \/ \E ok \in BOOLEAN : WriteTimed(1, "Info", "listening", ok)
  \/ Return(1)

SpecCfg == Init /\ [][NextCfg]_vars

\* ---- the width under concurrent calls -----------------------------------

InCall(t) == pc[t] \in {"load", "branch"}
HasWidth(t) == pc[t] \in {"write", "done"}
StartedLens == {started[i] : i \in 1..Len(started)}

\* C1: MAX_MODULE_WIDTH never decreases: no step of any interleaving of
\* max_target_width calls leaves it smaller than it was.
WidthNeverDecreases == [][MAX_MODULE_WIDTH' >= MAX_MODULE_WIDTH]_vars

\* C2: a call that started after another call returned gets a width that is
\* at least the length of that other call's target.
SeesCompletedCalls ==
  \A t \in Threads : HasWidth(t) => width[t] >= seen[t].width

\* C3: no update is lost: when no max_target_width call is running, the
\* stored width is the longest target length passed to any call so far.
NoLostUpdate ==
  (\A t \in Threads : ~InCall(t)) => MAX_MODULE_WIDTH = SeqMax(started)

\* C10: the stored width is 0 or the length of a target of a call that has
\* started, and a returned width is at least the length of the call's own
\* target and at most the longest target length of the calls started so far.
WidthWithinSeen ==
  /\ MAX_MODULE_WIDTH \in {0} \cup StartedLens
  /\ \A t \in Threads :
       HasWidth(t) => /\ width[t] >= Len(target[t])
                      /\ width[t] <= SeqMax(started)

\* C10 witness: a call returned a width wider than its own target while a
\* racing store has left a smaller value in MAX_MODULE_WIDTH
WidthWithinSeenWitness ==
  \E t \in Threads :
     /\ pc[t] = "write"
     /\ width[t] > Len(target[t])
     /\ MAX_MODULE_WIDTH < width[t]
     /\ MAX_MODULE_WIDTH > 0

\* ---- records formatted one after another --------------------------------

\* C4: the width used for record N is at least the length of every target
\* of records 1..N; targets "a", "bbbbb", "cc" get the widths 1, 5, 5.
MonotonicAlignment ==
  \A t \in Threads :
     HasWidth(t) =>
       /\ \A i \in 1..Len(started) : width[t] >= started[i]
       /\ started = <<1>> => width[t] = 1
       /\ started = <<1, 5>> => width[t] = 5
       /\ started = <<1, 5, 2>> => width[t] = 5

\* C4 witness: the third record of "a", "bbbbb", "cc" is padded to 5
MonotonicAlignmentWitness ==
  \E t \in Threads :
     /\ pc[t] = "done"
     /\ started = <<1, 5, 2>>
     /\ target[t] = "cc"
     /\ width[t] = 5

\* C7: after a write failed, MAX_MODULE_WIDTH holds what the update made
\* for the record left there, the same value as after a write that succeeded.
FailedWriteKeepsWidth ==
  \A t \in Threads :
     pc[t] = "done" =>
       /\ MAX_MODULE_WIDTH = Max(max_width[t], Len(target[t]))
       /\ MAX_MODULE_WIDTH = SeqMax(started)

\* C7 witness: the write of the timed closure failed for a record whose
\* target was longer than every earlier one
FailedWriteKeepsWidthWitness ==
  \E t \in Threads :
     /\ pc[t] = "done"
     /\ ~result[t].ok
     /\ formatters[fmt[t]].timed
     /\ 0 < max_width[t]
     /\ max_width[t] < Len(target[t])
     /\ MAX_MODULE_WIDTH = Len(target[t])

\* C8: every level's label has exactly 5 characters, and the labels are
\* "TRACE", "DEBUG", "INFO ", "WARN ", "ERROR".
LabelsFiveWide ==
  /\ \A level \in Levels : Len(colored_level(level)) = 5
  /\ \A t \in Threads :
       pc[t] = "done" =>
         /\ Len(result[t].label) = 5
         /\ <<result[t].level, result[t].label>> \in
              { <<"Trace", "TRACE">>, <<"Debug", "DEBUG">>,
                <<"Info", "INFO ">>, <<"Warn", "WARN ">>,
                <<"Error", "ERROR">> }

\* C8 witness: a Warn record was formatted
LabelsFiveWideWitness ==
  \E t \in Threads :
     pc[t] = "done" /\ result[t].level = "Warn" /\ result[t].label = "WARN "

\* C9: the untimed closure writes one line: a space, the 5-character label,
\* a space, the target filled with spaces to the returned width, " > ", the
\* message and a newline.
UntimedLineFormat ==
  \A t \in Threads :
     (pc[t] = "done" /\ ~formatters[fmt[t]].timed /\ result[t].ok) =>
       LET r == result[t] IN
       /\ width[t] >= Len(target[t])
       /\ Len(r.line) = 1 + 5 + 1 + width[t] + 3 + Len(r.msg) + 1
       /\ r.line = " " \o r.label \o " " \o target[t]
                     \o Spaces(width[t] - Len(target[t]))
                     \o " > " \o r.msg \o "\n"
       /\ (target[t] = "net::server" /\ r.level = "Info"
             /\ r.msg = "listening" /\ width[t] = 11)
            => r.line = " INFO  net::server > listening\n"
       /\ (target[t] = "a" /\ r.level = "Error"
             /\ r.msg = "listening" /\ width[t] = 5)
            => r.line = " ERROR a     > listening\n"

\* C9 witness: the record of the example was written by the untimed closure
UntimedLineFormatWitness ==
  \E t \in Threads :
     /\ pc[t] = "done"
     /\ ~formatters[fmt[t]].timed
     /\ result[t].ok
     /\ target[t] = "net::server"
     /\ result[t].level = "Info"
     /\ result[t].line = " INFO  net::server > listening\n"

\* ---- configuration and installation -------------------------------------

\* C5: a timed formatter renders every record with the mode TIMESTAMP_TYPE
\* held when the formatter was constructed, whatever set_timestamp_type
\* calls were made since.
ModeCapturedAtConstruction ==
  /\ \A f \in 1..Len(formatters) :
       formatters[f].timed => formatters[f].timestamp_format = builtWith[f]
  /\ \A t \in Threads :
       (pc[t] = "done" /\ formatters[fmt[t]].timed) =>
         /\ result[t].mode = builtWith[fmt[t]]
         /\ result[t].ok =>
              result[t].line = TimedLine(builtWith[fmt[t]], result[t].level,
                                         target[t], width[t], result[t].msg)

\* C5 witness: a formatter built under LocalRfc3339 formatted a record after
\* the mode was set to UtcRfc3339
ModeCapturedAtConstructionWitness ==
  \E t \in Threads :
     /\ pc[t] = "done"
     /\ formatters[fmt[t]].timed
     /\ result[t].ok
     /\ result[t].mode = "LocalRfc3339"
     /\ TIMESTAMP_TYPE = "UtcRfc3339"

\* C6: of the try_init* calls the first returns Ok and every later one the
\* error, and the formatter the first call built stays the global logger.
OneLoggerInstalled ==
  /\ \A i \in 1..Len(initResults) :
       initResults[i].result = IF i = 1 THEN "Ok" ELSE "Err"
  /\ initResults = <<>> => logger = 0
  /\ initResults # <<>> =>
       /\ logger = initResults[1].fmt
       /\ logger \in 1..Len(formatters)
       /\ formatters[logger].owner = "logger"
  /\ Cardinality({f \in 1..Len(formatters) :
                     formatters[f].owner = "logger"}) <= 1

\* C6 witness: after a second try_init* call was refused, the logger of the
\* first call formatted a record
OneLoggerInstalledWitness ==
  /\ Len(initResults) >= 2
  /\ initResults[2].result = "Err"
  /\ \E t \in Threads :
       /\ pc[t] = "done"
       /\ fmt[t] = logger
       /\ seen[t].inits >= 2
       /\ result[t].ok

====
